---- MODULE Spec2Model ----
(***************************************************************************)
(* Model of the timeit crate (src/lib.rs): the macros timeit_loops! and    *)
(* timeit!.                                                                *)
(*                                                                         *)
(* A Timespec is a record [sec, nsec] with 0 <= nsec < 1_000_000_000.      *)
(* An f64 number of seconds is kept exactly, as a record [w, f, d] that    *)
(* stands for (w + f / 1_000_000_000) / d with 0 <= f < 1_000_000_000 and  *)
(* d >= 1: w whole seconds and f nanoseconds, divided by the loop count d. *)
(* Floating-point rounding is not modelled.                                *)
(***************************************************************************)
EXTENDS Integers, Sequences, FiniteSets, TLC

VARIABLES
    mode,     \* which macro the caller invoked: "timeit_loops" or "timeit"
    pc,       \* position in the expanded macro
    pass,     \* number of timeit_loops! expansions entered so far (0, 1, 2)
    n,        \* the loop count (lib.rs:54 / lib.rs:72)
    i,        \* iterations of the current pass that have finished
    start,    \* lib.rs:55
    end,      \* lib.rs:59
    sec,      \* the value of the last finished timeit_loops! (lib.rs:63 / 73 / 87)
    sec0,     \* the value of the first pass, as used at lib.rs:76
    l,        \* lib.rs:76
    again,    \* lib.rs:74
    runs,     \* how many times the block was entered during the whole call
    failed,   \* the block has panicked
    reads,    \* how many times get_time() was called during the whole call
    out       \* the lines printed (lib.rs:100)

vars == <<mode, pc, pass, n, i, start, end, sec, sec0, l, again, runs, failed, reads, out>>

----------------------------------------------------------------------------
(* Program constants *)

NANOS == 1000000000

MILLION == 1000000

LowL == -5

\* isize::MIN, the result of casting -inf to isize (32-bit target width;
\* only its sign and its order against -5 and 0 are used)
ISIZE_MIN == -2147483647 - 1

----------------------------------------------------------------------------
(* Bounds of the model *)

\* the largest loop count the caller passes to timeit_loops! directly
MaxLoops == 3

\* how many of the candidate elapsed times are offered to a clock read
NumDurations == 18

----------------------------------------------------------------------------
(* Timespec and exact f64 helpers *)

Ts(s, ns) == [sec |-> s, nsec |-> ns]

TsAdd(t, d) ==
    IF t.nsec + d.nsec >= NANOS
    THEN Ts(t.sec + d.sec + 1, t.nsec + d.nsec - NANOS)
    ELSE Ts(t.sec + d.sec, t.nsec + d.nsec)

\* (w, f) > (w2, f2) for floor-normalised second counts
GtWF(w, f, w2, f2) == w > w2 \/ (w = w2 /\ f > f2)

RECURSIVE Pow10(_)
Pow10(k) == IF k <= 0 THEN 1 ELSE 10 * Pow10(k - 1)

\* the borrow from the seconds is lost: |end.nsec - start.nsec| is used
ElapsedSecAbs(st, en) ==
    LET ds == en.sec - st.sec
        dn == en.nsec - st.nsec
    IN  [w |-> ds, f |-> IF dn < 0 THEN -dn ELSE dn, d |-> 1]

\* lib.rs:60-61: (end.sec - start.sec) as f64 + (end.nsec - start.nsec) as f64 / 1e9
ElapsedSec(st, en) ==
    LET ds == en.sec - st.sec
        dn == en.nsec - st.nsec
    IN  IF dn < 0 THEN [w |-> ds - 1, f |-> dn + NANOS, d |-> 1]
                  ELSE [w |-> ds, f |-> dn, d |-> 1]

\* lib.rs:63: sec / (n as f64)
Average(st, en, loops) ==
    LET e == ElapsedSec(st, en) IN [w |-> e.w, f |-> e.f, d |-> loops]

\* lib.rs:76: sec.log10().ceil() as isize, for the first-pass value (d = 1)
RECURSIVE CeilLog10Nanos(_, _)
CeilLog10Nanos(v, k) == IF v <= Pow10(k) THEN k ELSE CeilLog10Nanos(v, k + 1)

RECURSIVE CeilLog10Whole(_, _, _)
CeilLog10Whole(w, f, k) ==
    IF k >= 10 THEN k
    ELSE IF ~GtWF(w, f, Pow10(k), 0) THEN k
    ELSE CeilLog10Whole(w, f, k + 1)

\* a zero sample is given the magnitude 0 instead of isize::MIN
CeilLog10ZeroIsZero(s) ==
    IF s.w < 0 THEN 0
    ELSE IF s.w = 0 /\ s.f = 0 THEN 0
    ELSE IF ~GtWF(s.w, s.f, 1, 0)
         THEN CeilLog10Nanos(IF s.w = 1 THEN NANOS ELSE s.f, 0) - 9
    ELSE CeilLog10Whole(s.w, s.f, 1)

CeilLog10(s) ==
    IF s.w < 0 THEN 0                      \* log10 of a negative is NaN, NaN as isize is 0
    ELSE IF s.w = 0 /\ s.f = 0 THEN ISIZE_MIN   \* log10(0) = -inf, saturating cast
    ELSE IF ~GtWF(s.w, s.f, 1, 0)
         THEN CeilLog10Nanos(IF s.w = 1 THEN NANOS ELSE s.f, 0) - 9
    ELSE CeilLog10Whole(s.w, s.f, 1)

\* l <= -5 instead of l < -5
ChooseLoopsLe(ll) ==
    IF ll <= LowL THEN [n |-> MILLION, again |-> TRUE]
    ELSE IF ll <= 0 THEN [n |-> Pow10(-ll), again |-> TRUE]
    ELSE [n |-> 1, again |-> FALSE]

\* again is never cleared
ChooseLoopsAlways(ll) ==
    IF ll < LowL THEN [n |-> MILLION, again |-> TRUE]
    ELSE IF ll <= 0 THEN [n |-> Pow10(-ll), again |-> TRUE]
    ELSE [n |-> 1, again |-> TRUE]

\* 100_000 instead of 1000_000
ChooseLoopsHundredK(ll) ==
    IF ll < LowL THEN [n |-> 100000, again |-> TRUE]
    ELSE IF ll <= 0 THEN [n |-> Pow10(-ll), again |-> TRUE]
    ELSE [n |-> 1, again |-> FALSE]

\* n is scaled by the magnitude before the decision not to run again
ChooseLoopsStaleN(ll) ==
    IF ll < LowL THEN [n |-> MILLION, again |-> TRUE]
    ELSE IF ll <= 0 THEN [n |-> Pow10(-ll), again |-> TRUE]
    ELSE [n |-> Pow10(ll), again |-> FALSE]

\* lib.rs:78-84: the loop count of the second pass and whether it runs
ChooseLoops(ll) ==
    IF ll < LowL THEN [n |-> MILLION, again |-> TRUE]
    ELSE IF ll <= 0 THEN [n |-> Pow10(-ll), again |-> TRUE]
    ELSE [n |-> 1, again |-> FALSE]

\* s > k seconds / 10^(3*j): comparisons of lib.rs:90-94 with j = 0, 1, 2
\* (s.w + s.f/1e9) / s.d > 10^(-3j)  <=>  (s.w, s.f) > s.d * 10^(-3j) seconds
GtSeconds(s) == GtWF(s.w, s.f, s.d, 0)
GtMillis(s) == GtWF(s.w, s.f, s.d \div 1000, (s.d % 1000) * 1000000)
GtMicros(s) == GtWF(s.w, s.f, s.d \div 1000000, (s.d % 1000000) * 1000)

\* >= instead of > in the three comparisons
UnitGe(s) ==
    IF ~GtWF(s.d, 0, s.w, s.f) THEN [mult |-> 1000000000, unit |-> "s"]
    ELSE IF ~GtWF(s.d \div 1000, (s.d % 1000) * 1000000, s.w, s.f)
         THEN [mult |-> 1000000, unit |-> "ms"]
    ELSE IF ~GtWF(s.d \div 1000000, (s.d % 1000000) * 1000, s.w, s.f)
         THEN [mult |-> 1000, unit |-> "µs"]
    ELSE [mult |-> 1, unit |-> "ns"]

\* lib.rs:90-98: the divisor (in nanoseconds) and the unit string
Unit(s) ==
    IF GtSeconds(s) THEN [mult |-> 1000000000, unit |-> "s"]
    ELSE IF GtMillis(s) THEN [mult |-> 1000000, unit |-> "ms"]
    ELSE IF GtMicros(s) THEN [mult |-> 1000, unit |-> "µs"]
    ELSE [mult |-> 1, unit |-> "ns"]

----------------------------------------------------------------------------
(* Inputs: what the clock returns *)

\* candidate elapsed times between two clock reads, as Timespec differences
DurationSeq ==
    << Ts(0, 0), Ts(0, 1), Ts(0, 999), Ts(0, 1001), Ts(0, 100000),
       Ts(0, 1000000), Ts(0, 1000001), Ts(0, 100000000), Ts(0, 100000001),
       Ts(0, 999999999), Ts(1, 0), Ts(1, 1), Ts(10, 0), Ts(10, 1),
       Ts(1000, 0), Ts(1000, 1), Ts(1000000, 0), Ts(1000000, 1),
       Ts(0, 10000), Ts(0, 10001), Ts(100, 0) >>

Durations ==
    { DurationSeq[k] : k \in 1..(IF NumDurations < Len(DurationSeq)
                                 THEN NumDurations ELSE Len(DurationSeq)) }

\* what get_time() returns at the first read of a call
StartReadings == { Ts(7, 999999000) }

\* clock time that passes between the end of the first pass and the start of
\* the second (lib.rs:74-86)
PassGaps == { Ts(0, 120) }

NoTime == Ts(0, 0)
NoSec == [w |-> 0, f |-> 0, d |-> 1]

----------------------------------------------------------------------------
Init ==
    /\ mode = "none"
    /\ pc = "idle"
    /\ pass = 0
    /\ n = 0
    /\ i = 0
    /\ start = NoTime
    /\ end = NoTime
    /\ sec = NoSec
    /\ sec0 = NoSec
    /\ l = 0
    /\ again = TRUE
    /\ runs = 0
    /\ failed = FALSE
    /\ reads = 0
    /\ out = << >>

\* timeit_loops!(loops, code) invoked by the caller: lib.rs:54-55
TimeitLoopsCall(loops, t) ==
    /\ pc = "idle"
    /\ mode' = "timeit_loops"
    /\ n' = loops
    /\ start' = t
    /\ reads' = reads + 1
    /\ i' = 0
    /\ pass' = 1
    /\ pc' = "loop"
    /\ UNCHANGED <<end, sec, sec0, l, again, runs, failed, out>>

\* timeit!(code) invoked by the caller: lib.rs:72-74, then 54-55 of the first pass
TimeitCall(t) ==
    /\ pc = "idle"
    /\ mode' = "timeit"
    /\ n' = 1
    /\ again' = TRUE
    /\ start' = t
    /\ reads' = reads + 1
    /\ i' = 0
    /\ pass' = 1
    /\ pc' = "loop"
    /\ UNCHANGED <<end, sec, sec0, l, runs, failed, out>>

\* lib.rs:56-58: one iteration of the loop, the block finishes
RunBlock ==
    /\ pc = "loop"
    /\ i < n
    /\ i' = i + 1
    /\ runs' = runs + 1
    /\ UNCHANGED <<mode, pc, pass, n, start, end, sec, sec0, l, again, failed, reads, out>>

\* the failure is swallowed and the loop goes on
BlockPanicsSwallowed ==
    /\ pc = "loop"
    /\ i < n
    /\ runs' = runs + 1
    /\ failed' = TRUE
    /\ i' = i + 1
    /\ UNCHANGED <<mode, pc, pass, n, start, end, sec, sec0, l, again, reads, out>>

\* lib.rs:57: the block panics; the panic unwinds out of the macro
BlockPanics ==
    /\ pc = "loop"
    /\ i < n
    /\ runs' = runs + 1
    /\ failed' = TRUE
    /\ pc' = "panicked"
    /\ UNCHANGED <<mode, pass, n, i, start, end, sec, sec0, l, again, reads, out>>

\* the loop stops one iteration early (1..n instead of 0..n)
ReadEndEarly(t) ==
    /\ pc = "loop"
    /\ i >= n - 1
    /\ end' = t
    /\ reads' = reads + 1
    /\ sec' = Average(start, t, n)
    /\ sec0' = IF mode = "timeit" /\ pass = 1 THEN Average(start, t, n) ELSE sec0
    /\ pc' = IF mode = "timeit_loops" THEN "returned"
             ELSE IF pass = 1 THEN "decide" ELSE "report"
    /\ UNCHANGED <<mode, pass, n, i, start, l, again, runs, failed, out>>

\* the second pass is followed by a new decision (a retry loop)
ReadEndRetry(t) ==
    /\ pc = "loop"
    /\ i >= n
    /\ end' = t
    /\ reads' = reads + 1
    /\ sec' = Average(start, t, n)
    /\ sec0' = IF mode = "timeit" /\ pass = 1 THEN Average(start, t, n) ELSE sec0
    /\ pc' = IF mode = "timeit_loops" THEN "returned" ELSE "decide"
    /\ UNCHANGED <<mode, pass, n, i, start, l, again, runs, failed, out>>

\* lib.rs:59-63: the loop is over; end is read and the average returned
ReadEnd(t) ==
    /\ pc = "loop"
    /\ i >= n
    /\ end' = t
    /\ reads' = reads + 1
    /\ sec' = Average(start, t, n)
    /\ sec0' = IF mode = "timeit" /\ pass = 1 THEN Average(start, t, n) ELSE sec0
    /\ pc' = IF mode = "timeit_loops" THEN "returned"
             ELSE IF pass = 1 THEN "decide" ELSE "report"
    /\ UNCHANGED <<mode, pass, n, i, start, l, again, runs, failed, out>>

\* lib.rs:76-86
Decide ==
    /\ pc = "decide"
    /\ l' = CeilLog10(sec)
    /\ n' = ChooseLoops(CeilLog10(sec)).n
    /\ again' = ChooseLoops(CeilLog10(sec)).again
    /\ pc' = IF ChooseLoops(CeilLog10(sec)).again THEN "pass2" ELSE "report"
    /\ UNCHANGED <<mode, pass, i, start, end, sec, sec0, runs, failed, reads, out>>

\* lib.rs:87, then 54-55 of the second pass
SecondPass(t) ==
    /\ pc = "pass2"
    /\ start' = t
    /\ reads' = reads + 1
    /\ i' = 0
    /\ pass' = pass + 1
    /\ pc' = "loop"
    /\ UNCHANGED <<mode, n, end, sec, sec0, l, again, runs, failed, out>>

\* lib.rs:90-100
Report ==
    /\ pc = "report"
    /\ out' = Append(out, [loops |-> n, sec |-> sec,
                           mult |-> Unit(sec).mult, unit |-> Unit(sec).unit])
    /\ pc' = "done"
    /\ UNCHANGED <<mode, pass, n, i, start, end, sec, sec0, l, again, runs, failed, reads>>

Next ==
    \/ \E loops \in 1..MaxLoops, t \in StartReadings : TimeitLoopsCall(loops, t)
    \/ \E t \in StartReadings : TimeitCall(t)
    \/ RunBlock
    \/ BlockPanics
    \/ \E d \in Durations : ReadEnd(TsAdd(start, d))
    \/ Decide
    \/ \E g \in PassGaps : SecondPass(TsAdd(end, g))
    \/ Report

Spec == Init /\ [][Next]_vars

----------------------------------------------------------------------------
(* Properties *)

\* the first sample of a timeit! call has been taken
FirstSampleKnown ==
    mode = "timeit" /\ (pass >= 2 \/ pc \in {"decide", "pass2", "report", "done"})

\* lib.rs:76-84 has run
Decided ==
    mode = "timeit" /\ (pass >= 2 \/ pc \in {"pass2", "report", "done"})

\* the first sample is exactly zero / at most one second / over one second
Sec0IsZero == sec0.w = 0 /\ sec0.f = 0
Sec0AtMostOneSecond == sec0.w = 0 \/ (sec0.w = 1 /\ sec0.f = 0)
Sec0OverOneSecond == sec0.w > 1 \/ (sec0.w = 1 /\ sec0.f > 0)
Sec0AtLeastOneSecond == sec0.w >= 1

\* the first sample in nanoseconds, when it is at most one second
Sec0Nanos == IF sec0.w = 1 THEN 1000000000 ELSE sec0.f

\* the elapsed time of the pass that just ended, recomputed from the two readings:
\* start + (w seconds, f nanoseconds) = end
ElapsedIs(w, f) ==
    /\ f >= 0
    /\ f < 1000000000
    /\ end = (IF start.nsec + f >= 1000000000
              THEN [sec |-> start.sec + w + 1, nsec |-> start.nsec + f - 1000000000]
              ELSE [sec |-> start.sec + w, nsec |-> start.nsec + f])

\* C1: timeit_loops!(N, block) with a block that does not fail runs the block
\* exactly N times and reads the clock exactly twice; the start is read before
\* any iteration and the end only after the N-th one.
C1_ExactlyNRunsBetweenTwoReads ==
    (mode = "timeit_loops" /\ ~failed) =>
        /\ reads \in 1..2
        /\ runs = i
        /\ runs <= n
        /\ (pc = "loop" => reads = 1)
        /\ (reads = 2 => runs = n /\ pc = "returned")
        /\ (pc = "returned" => reads = 2 /\ runs = n)

C1_Witness ==
    mode = "timeit_loops" /\ pc = "returned" /\ n = 3 /\ runs = 3 /\ reads = 2

\* C2: with l = ceil(log10(sec0)) of the first-pass sample, the loop count is
\* 1,000,000 when l < -5, 10^(-l) when -5 <= l <= 0, and stays 1 when l > 0.
C2_LoopCountFromMagnitude ==
    Decided =>
        /\ (~Sec0IsZero /\ Sec0AtMostOneSecond) =>
              /\ l \in -9..0
              /\ Sec0Nanos <= Pow10(l + 9)
              /\ (l > -9 => Sec0Nanos > Pow10(l + 8))
        /\ Sec0OverOneSecond => l >= 1
        /\ (l < -5 => n = 1000000 /\ again)
        /\ (l = -5 => n = 100000 /\ again)
        /\ (l = -4 => n = 10000 /\ again)
        /\ (l = -3 => n = 1000 /\ again)
        /\ (l = -2 => n = 100 /\ again)
        /\ (l = -1 => n = 10 /\ again)
        /\ (l = 0 => n = 1 /\ again)
        /\ (l > 0 => n = 1 /\ ~again)

C2_Witness ==
    Decided /\ sec0 = [w |-> 0, f |-> 1001, d |-> 1] /\ l = -5 /\ n = 100000

\* C3 (as stated): whenever the first-pass sample is >= 1 second, 1.0 second
\* included, the loop count stays 1 and there is no second pass: the block runs
\* once in the whole call and the first sample is the one reported.
C3_NoSecondPassFromOneSecond ==
    (FirstSampleKnown /\ Sec0AtLeastOneSecond) =>
        /\ pass = 1
        /\ runs = 1
        /\ pc # "pass2"
        /\ (Decided => n = 1 /\ ~again)
        /\ (pc = "done" => out[1].sec = sec0 /\ out[1].loops = 1)

\* C3 (amended): whenever the first-pass sample is strictly greater than
\* 1 second, the loop count stays 1 and there is no second pass: the block runs
\* once in the whole call and the first sample is the one reported.
C3_NoSecondPassOverOneSecond ==
    (FirstSampleKnown /\ Sec0OverOneSecond) =>
        /\ pass = 1
        /\ runs = 1
        /\ pc # "pass2"
        /\ (Decided => n = 1 /\ ~again)
        /\ (pc = "done" => out[1].sec = sec0 /\ out[1].loops = 1)

C3_Witness ==
    /\ mode = "timeit"
    /\ pc = "done"
    /\ sec0 = [w |-> 1, f |-> 1, d |-> 1]
    /\ runs = 1
    /\ out[1].sec = sec0

\* C4: a first-pass sample of exactly zero seconds is treated as very fast:
\* the call goes on into a second pass with N = 1,000,000.
C4_ZeroSampleTakesMillionLoops ==
    (Decided /\ Sec0IsZero) =>
        /\ n = 1000000
        /\ again
        /\ (pc = "pass2" \/ pass = 2)
        /\ (pc = "done" => out[1].loops = 1000000)

C4_Witness ==
    mode = "timeit" /\ Sec0IsZero /\ pass = 2 /\ pc = "loop" /\ n = 1000000 /\ i = 2

\* C5: for every first-pass sample of 1 to 999 nanoseconds the loop count is
\* exactly 1,000,000 and a second pass with that count is run.
C5_UnderOneMicrosecondTakesMillionLoops ==
    (Decided /\ sec0.w = 0 /\ sec0.f \in 1..999) =>
        /\ n = 1000000
        /\ again
        /\ (pc = "pass2" \/ pass = 2)
        /\ (pc \in {"report", "done"} => runs = 1000001)
        /\ (pc = "done" => out[1].loops = 1000000)

C5_Witness ==
    /\ mode = "timeit"
    /\ sec0 = [w |-> 0, f |-> 999, d |-> 1]
    /\ pc = "done"
    /\ runs = 1000001
    /\ out[1].loops = 1000000

\* the reported sample: elapsed time (w, f) of the last pass over its n loops
\* is above k seconds / above k milliseconds / above k microseconds per loop
OverSeconds(w, f) == w > n \/ (w = n /\ f > 0)
OverMillis(w, f) ==
    w > n \div 1000 \/ (w = n \div 1000 /\ f > (n % 1000) * 1000000)
OverMicros(w, f) ==
    w > n \div 1000000 \/ (w = n \div 1000000 /\ f > (n % 1000000) * 1000)

\* C6: the unit is chosen from the final sample (the second-pass value when a
\* second pass ran, else the first sample) by strict thresholds, largest
\* first: > 1.0 s, > 0.001 ms, > 0.000001 us, otherwise ns; a sample equal to
\* a threshold gets the next smaller unit.
C6_UnitByStrictThresholds ==
    (mode = "timeit" /\ pc = "done") =>
        /\ Len(out) = 1
        /\ out[1].sec = sec
        /\ (pass = 1 => sec = sec0)
        /\ sec.d = n
        /\ ElapsedIs(sec.w, sec.f)
        /\ LET w == sec.w
               f == sec.f
           IN  /\ OverSeconds(w, f) =>
                     out[1].mult = 1000000000 /\ out[1].unit = "s"
               /\ (~OverSeconds(w, f) /\ OverMillis(w, f)) =>
                     out[1].mult = 1000000 /\ out[1].unit = "ms"
               /\ (~OverMillis(w, f) /\ OverMicros(w, f)) =>
                     out[1].mult = 1000 /\ out[1].unit = "µs"
               /\ ~OverMicros(w, f) =>
                     out[1].mult = 1 /\ out[1].unit = "ns"

\* a second pass of 1000 loops took exactly 1 second: 0.001 s per loop
C6_Witness ==
    /\ mode = "timeit"
    /\ pc = "done"
    /\ pass = 2
    /\ n = 1000
    /\ sec = [w |-> 1, f |-> 0, d |-> 1000]
    /\ out[1].unit = "µs"

\* C7: when the block fails on its k-th of N iterations, the failure leaves
\* the macro at once: no later iteration starts, the end timestamp is not
\* read, no average is produced, and in timeit! nothing is printed and
\* nothing more happens.
C7_FailurePropagates ==
    failed =>
        /\ pc = "panicked"
        /\ i < n
        /\ runs = (IF pass = 2 THEN 1 ELSE 0) + i + 1
        /\ reads = 2 * pass - 1
        /\ sec = (IF pass = 2 THEN sec0 ELSE NoSec)
        /\ out = << >>
        /\ ~ENABLED Next

\* the block fails on the 2nd of 10 iterations of a second pass
C7_Witness ==
    failed /\ mode = "timeit" /\ pass = 2 /\ n = 10 /\ i = 1 /\ runs = 3

\* C8: a timeit! call whose block does not fail runs pass 1 with N = 1, then
\* at most one more pass with the computed N, then prints one line and ends:
\* the block has run once (one pass) or 1 + N times (two passes).
C8_OneOrTwoPassesThenOneReport ==
    (mode = "timeit" /\ ~failed) =>
        /\ pass \in 1..2
        /\ (pass = 1 /\ pc = "loop" => n = 1)
        /\ (pc # "done" => out = << >>)
        /\ (pc \in {"decide", "pass2"} => pass = 1 /\ runs = 1 /\ reads = 2)
        /\ (pc = "report" /\ pass = 1 => ~again)
        /\ (pass = 2 => again)
        /\ (pc \in {"report", "done"} =>
              \/ pass = 1 /\ runs = 1 /\ reads = 2
              \/ pass = 2 /\ runs = 1 + n /\ reads = 4)
        /\ (pc = "done" => Len(out) = 1 /\ out[1].loops = n /\ ~ENABLED Next)
        /\ (pc # "done" => ENABLED Next)

C8_Witness ==
    mode = "timeit" /\ pc = "done" /\ pass = 2 /\ n = 100 /\ runs = 101 /\ Len(out) = 1

\* C9: for clock readings with end not earlier than start, the value of
\* timeit_loops! is >= 0 and equals (end - start) / N, also when
\* end.nsec < start.nsec.
C9_AverageIsElapsedOverN ==
    (mode = "timeit_loops" /\ pc = "returned") =>
        /\ sec.w >= 0
        /\ sec.d = n
        /\ n >= 1
        /\ ElapsedIs(sec.w, sec.f)

C9_Witness ==
    /\ mode = "timeit_loops"
    /\ pc = "returned"
    /\ n = 3
    /\ end.nsec < start.nsec
    /\ end.sec = start.sec + 1
    /\ sec = [w |-> 0, f |-> 1001, d |-> 3]

\* C10: every loop count timeit! passes to the timer or prints is one of
\* 1, 10, 100, 1,000, 10,000, 100,000, 1,000,000, and the count printed is
\* the loop count of the pass that produced the reported duration.
C10_LoopCountIsPowerOfTen ==
    (mode = "timeit") =>
        /\ n \in {1, 10, 100, 1000, 10000, 100000, 1000000}
        /\ (pc = "loop" => i <= n)
        /\ (pc = "done" =>
              /\ out[1].loops = n
              /\ out[1].loops = out[1].sec.d
              /\ out[1].loops >= 1
              /\ runs = (IF pass = 2 THEN 1 ELSE 0) + out[1].loops)

C10_Witness ==
    /\ mode = "timeit"
    /\ pc = "done"
    /\ pass = 1
    /\ sec0 = [w |-> 10, f |-> 0, d |-> 1]
    /\ out[1].loops = 1

====
